---- MODULE Spec2Model ----
(***************************************************************************)
(* Model of solana_project_quiz.py: the SolanaProjectQuiz class (question  *)
(* bank, run_quiz, show_results) and main.                                 *)
(*                                                                         *)
(* Text (command-line arguments, lines read from standard input) is a      *)
(* sequence of one-character strings; int() is modelled by the parse it    *)
(* performs.  Floating-point values are modelled as IEEE-754 binary64      *)
(* numbers: a 53-bit significand (held in limbs) and a binary exponent,    *)
(* with round-to-nearest-even.                                             *)
(***************************************************************************)
EXTENDS Integers, Sequences, FiniteSets, TLC

(***************************************************************************)
(* Bounds of the model.                                                    *)
(***************************************************************************)
\* number of entries of the question bank kept in the model
BankSize == 3
\* largest number of answered questions the results report is checked for
MaxTotal == 30

(***************************************************************************)
(* Text and int(text).                                                     *)
(***************************************************************************)
Digits == <<"0", "1", "2", "3", "4", "5", "6", "7", "8", "9">>

IsDigit(c) == \E d \in 1..Len(Digits) : Digits[d] = c

DigitVal(c) == (CHOOSE d \in 1..Len(Digits) : Digits[d] = c) - 1

IsSpace(c) == c = " "

RECURSIVE LStrip(_)
LStrip(s) ==
    IF s # <<>> /\ IsSpace(Head(s)) THEN LStrip(Tail(s)) ELSE s

RECURSIVE RStrip(_)
RStrip(s) ==
    IF s # <<>> /\ IsSpace(s[Len(s)]) THEN RStrip(SubSeq(s, 1, Len(s) - 1)) ELSE s

\* str.strip()
Strip(s) == RStrip(LStrip(s))

\* the digit groups of an integer literal: digits, single underscores between
WellFormedDigits(s) ==
    /\ s # <<>>
    /\ IsDigit(s[1])
    /\ IsDigit(s[Len(s)])
    /\ \A k \in 1..Len(s) : IsDigit(s[k]) \/ s[k] = "_"
    /\ \A k \in 1..(Len(s) - 1) : ~(s[k] = "_" /\ s[k + 1] = "_")

RECURSIVE DigitsValue(_, _)
DigitsValue(s, acc) ==
    IF s = <<>> THEN acc
    ELSE IF Head(s) = "_" THEN DigitsValue(Tail(s), acc)
    ELSE DigitsValue(Tail(s), 10 * acc + DigitVal(Head(s)))

\* int(s) for a str s: [ok |-> TRUE, val |-> n], or ok = FALSE for ValueError
ParseInt(s) ==
    LET t == Strip(s)
        signed == t # <<>> /\ Head(t) \in {"+", "-"}
        body == IF signed THEN Tail(t) ELSE t
    IN  IF WellFormedDigits(body)
        THEN [ok |-> TRUE,
              val |-> IF signed /\ Head(t) = "-"
                      THEN 0 - DigitsValue(body, 0)
                      ELSE DigitsValue(body, 0)]
        ELSE [ok |-> FALSE, val |-> 0]

(***************************************************************************)
(* binary64 arithmetic on non-negative values.  A value is                 *)
(*   (h + l[1]/Base + l[2]/Base^2 + ... ) * 2^e,                           *)
(* zero when h = 0 and otherwise normalised with h = 1: a significand of   *)
(* 1 + NumLimbs * LimbBits = 53 bits.  Results are rounded to nearest,     *)
(* ties to even.                                                           *)
(***************************************************************************)
LimbBits == 13

NumLimbs == 4

RECURSIVE Pow2(_)
Pow2(n) == IF n = 0 THEN 1 ELSE 2 * Pow2(n - 1)

Base == Pow2(LimbBits)

RECURSIVE BitLen(_)
BitLen(n) == IF n = 0 THEN 0 ELSE 1 + BitLen(n \div 2)

ZeroLimbs == [i \in 1..NumLimbs |-> 0]

FloatZero == [h |-> 0, l |-> ZeroLimbs, e |-> 0]

\* one unit in the last place more (the limbs are not all Base - 1)
IncLast(l) ==
    [i \in 1..NumLimbs |->
        IF \A j \in (i + 1)..NumLimbs : l[j] = Base - 1
        THEN (l[i] + 1) % Base
        ELSE l[i]]

\* Round (h + 0.l + below) * 2^e, 1 <= h < Base, to a normalised value.
\* rem tells what lies below the last limb, in units of its last place:
\* 0 nothing, 1 less than a half, 2 exactly a half, 3 more than a half.
RoundFloat(h, l, e, rem) ==
    LET sh == BitLen(h) - 1
        p == Pow2(sh)
        d == [i \in 0..NumLimbs |-> IF i = 0 THEN h ELSE l[i]]
        n == [i \in 1..NumLimbs |-> (d[i - 1] % p) * (Base \div p) + (d[i] \div p)]
        dropped == l[NumLimbs] % p
        code == IF sh = 0 THEN rem
                ELSE IF 2 * dropped > p THEN 3
                ELSE IF 2 * dropped = p THEN (IF rem = 0 THEN 2 ELSE 3)
                ELSE IF dropped = 0 /\ rem = 0 THEN 0
                ELSE 1
        up == code = 3 \/ (code = 2 /\ n[NumLimbs] % 2 = 1)
    IN  IF ~up THEN [h |-> 1, l |-> n, e |-> e + sh]
        ELSE IF \A j \in 1..NumLimbs : n[j] = Base - 1
        THEN [h |-> 1, l |-> ZeroLimbs, e |-> e + sh + 1]
        ELSE [h |-> 1, l |-> IncLast(n), e |-> e + sh]

\* int -> float, for 0 <= n < Base (exact)
FloatOfInt(n) == IF n = 0 THEN FloatZero ELSE RoundFloat(n, ZeroLimbs, 0, 0)

RECURSIVE ScaleUp(_, _, _)
ScaleUp(num, den, e) ==
    IF num < den THEN ScaleUp(2 * num, den, e - 1) ELSE [num |-> num, e |-> e]

RECURSIVE ScaleDown(_, _, _)
ScaleDown(num, den, e) ==
    IF num >= 2 * den THEN ScaleDown(num, 2 * den, e + 1) ELSE [den |-> den, e |-> e]

\* remainder of the long division after i limbs of the quotient
RECURSIVE DivRem(_, _, _)
DivRem(r, den, i) ==
    IF i = 0 THEN r ELSE (DivRem(r, den, i - 1) * Base) % den

\* s / t for ints s >= 0, t > 0 (true division, correctly rounded)
FloatDivInt(s, t) ==
    IF s = 0 THEN FloatZero
    ELSE LET u == ScaleUp(s, t, 0)
             v == ScaleDown(u.num, t, u.e)
             \* u.num / v.den lies in [1, 2)
             r0 == u.num - v.den
             q == [i \in 1..NumLimbs |-> (DivRem(r0, v.den, i - 1) * Base) \div v.den]
             r == DivRem(r0, v.den, NumLimbs)
             rem == IF r = 0 THEN 0
                    ELSE IF 2 * r < v.den THEN 1
                    ELSE IF 2 * r = v.den THEN 2
                    ELSE 3
         IN  RoundFloat(1, q, v.e, rem)

\* carry out of limb i when the limbs are multiplied by k
RECURSIVE MulCarry(_, _, _)
MulCarry(l, k, i) ==
    IF i > NumLimbs THEN 0 ELSE (l[i] * k + MulCarry(l, k, i + 1)) \div Base

\* x * k for a float x and an int k, 0 < k < Base \div 2
FloatMulInt(x, k) ==
    IF x.h = 0 THEN FloatZero
    ELSE RoundFloat(x.h * k + MulCarry(x.l, k, 1),
                    [i \in 1..NumLimbs |-> (x.l[i] * k + MulCarry(x.l, k, i + 1)) % Base],
                    x.e, 0)

LimbsGE(a, b) ==
    \/ a = b
    \/ \E i \in 1..NumLimbs : a[i] > b[i] /\ \A j \in 1..(i - 1) : a[j] = b[j]

\* x >= y
FloatGE(x, y) ==
    IF y.h = 0 THEN TRUE
    ELSE IF x.h = 0 THEN FALSE
    ELSE x.e > y.e \/ (x.e = y.e /\ LimbsGE(x.l, y.l))

(***************************************************************************)
(* The question bank (self.questions): the first entries of the list, with *)
(* the fields the quiz logic reads.  "correct" is a 0-based index as in    *)
(* the source; sequences here are 1-based, so option k of the source is    *)
(* options[k + 1].                                                         *)
(***************************************************************************)
AllQuestions == <<
    [options |-> <<"programs/patent-nft/src/lib.rs", "app/sdk.ts">>,
     correct |-> 0],
    [options |-> <<"[b'state']", "[b'patent', patent_hash]">>,
     correct |-> 1],
    [options |-> <<"app/sdk.ts:147 (PatentNFTSDK.mintPatentNFT)",
                   "app/sdk.ts:330 (NFTMarketplaceSDK.listNFT)">>,
     correct |-> 0],
    [options |-> <<"0.025 SOL", "0.05 SOL">>,
     correct |-> 1],
    [options |-> <<"SPL Token Program", "Metaplex Token Metadata Program">>,
     correct |-> 1] >>

Bank == SubSeq(AllQuestions, 1, BankSize)

\* default of num_questions in main
DefaultNumQuestions == 10

(***************************************************************************)
(* Inputs: command-line arguments and lines typed at the answer prompt.    *)
(***************************************************************************)
Args == { <<"0">>, <<"1">>, <<"2">>, <<" ", "3">>, <<"4">>, <<"5">>,
          <<"-", "1">>, <<"a", "b", "c">>, <<"2", ".", "5">>, <<>> }

\* sys.argv[1:]
ArgvChoices == { <<>> } \cup { <<a>> : a \in Args }

Lines == { <<"1">>, <<"2">>, <<" ", "2", " ">>, <<"0">>, <<"3">>,
           <<"-", "1">>, <<"a">>, <<>>, <<"1", ".", "0">> }

(***************************************************************************)
(* State.                                                                  *)
(***************************************************************************)
VARIABLES
    questions,          \* self.questions
    score,              \* self.score
    total_questions,    \* self.total_questions
    argv,               \* sys.argv[1:]
    num_questions,      \* num_questions of main and run_quiz
    selected_questions, \* run_quiz: indices into questions of the sample
    i,                  \* run_quiz: 1-based position in selected_questions
    options,            \* run_quiz: shuffled <<orig_idx, text>> pairs
    correct_idx,        \* run_quiz: 0-based position of the correct option
    answer,             \* run_quiz: the stripped line last read
    answer_idx,         \* run_quiz: int(answer) - 1
    raised,             \* the exception raised last, or "none"
    presented,          \* the questions displayed so far, as displayed
    report,             \* what show_results printed, or NoReport
    out,                \* kinds of message written to standard output
    pc,                 \* "main", "run_quiz", "input", "show_results", "exited"
    exit_code           \* exit status, once pc = "exited"

vars == <<questions, score, total_questions, argv, num_questions,
          selected_questions, i, options, correct_idx, answer, answer_idx,
          raised, presented, report, out, pc, exit_code>>

NoReport == [score |-> -1, total |-> -1, percentage |-> FloatZero, tier |-> "none"]

Min(a, b) == IF a < b THEN a ELSE b

(***************************************************************************)
(* run_quiz and show_results.                                              *)
(***************************************************************************)
\* min(num_questions, len(self.questions)), with max for min
SampleSize_Max(n, len) == IF n > len THEN n ELSE len

\* min(num_questions, len(self.questions))
SampleSize(n, len) == Min(n, len)

\* a sample drawn with replacement
Sample_WithReplacement(population, k) ==
    IF k < 0 \/ k > Len(population) THEN {}
    ELSE [1..k -> 1..Len(population)]

\* a sample that takes a negative size for an empty one
Sample_NegativeAsEmpty(population, k) ==
    IF k > Len(population) THEN {}
    ELSE IF k < 0 THEN { <<>> }
    ELSE { f \in [1..k -> 1..Len(population)] :
             \A a, b \in 1..k : a # b => f[a] # f[b] }

\* random.sample(population, k): the possible results, as index sequences;
\* no result (ValueError) when k < 0 or k > len(population)
Sample(population, k) ==
    IF k < 0 \/ k > Len(population) THEN {}
    ELSE { f \in [1..k -> 1..Len(population)] :
             \A a, b \in 1..k : a # b => f[a] # f[b] }

\* list(enumerate(opts))
Enumerate(opts) == [k \in 1..Len(opts) |-> <<k - 1, opts[k]>>]

\* random.shuffle(lst): the possible orders
Shuffle(lst) ==
    { [k \in 1..Len(lst) |-> lst[f[k]]] :
        f \in { g \in [1..Len(lst) -> 1..Len(lst)] :
                  \A a, b \in 1..Len(lst) : a # b => g[a] # g[b] } }

\* the correct position taken from the unshuffled question
CorrectIdx_Unshuffled(opts, q) == q.correct

\* next(idx for idx, (orig_idx, _) in enumerate(options) if orig_idx == q['correct'])
CorrectIdx(opts, q) ==
    (CHOOSE k \in 1..Len(opts) :
        /\ opts[k][1] = q.correct
        /\ \A j \in 1..(k - 1) : opts[j][1] # q.correct) - 1

\* the range check applied to the number typed less one too many
InRange_AcceptsZero(idx, opts) == 0 <= idx + 1 /\ idx < Len(opts)

\* 0 <= answer_idx < len(options)
InRange(idx, opts) == 0 <= idx /\ idx < Len(opts)

\* self.score after the answer check
ScoreAfter(s, idx, cidx) == IF idx = cidx THEN s + 1 ELSE s

\* the percentage with 100 for an empty run
Percentage_EmptyIsFull(s, t) ==
    IF t > 0 THEN FloatMulInt(FloatDivInt(s, t), 100) ELSE FloatOfInt(100)

\* (self.score / self.total_questions * 100) if self.total_questions > 0 else 0
Percentage(s, t) ==
    IF t > 0 THEN FloatMulInt(FloatDivInt(s, t), 100) ELSE FloatOfInt(0)

\* the tiers with exclusive lower bounds
Tier_Exclusive(percentage) ==
    IF ~FloatGE(FloatOfInt(90), percentage) THEN "outstanding"
    ELSE IF ~FloatGE(FloatOfInt(75), percentage) THEN "great_job"
    ELSE IF ~FloatGE(FloatOfInt(60), percentage) THEN "good_work"
    ELSE "keep_studying"

\* the if / elif chain of show_results
Tier(percentage) ==
    IF FloatGE(percentage, FloatOfInt(90)) THEN "outstanding"
    ELSE IF FloatGE(percentage, FloatOfInt(75)) THEN "great_job"
    ELSE IF FloatGE(percentage, FloatOfInt(60)) THEN "good_work"
    ELSE "keep_studying"

show_results(s, t) ==
    [score |-> s, total |-> t,
     percentage |-> Percentage(s, t),
     tier |-> Tier(Percentage(s, t))]

\* the count with the default taken when int() raises
NumQuestionsArg_DefaultOnError(av) ==
    IF Len(av) > 0 /\ ParseInt(av[1]).ok THEN ParseInt(av[1])
    ELSE [ok |-> TRUE, val |-> DefaultNumQuestions]

\* the count main passes to run_quiz: [ok |-> FALSE] when int() raises
NumQuestionsArg(av) ==
    IF Len(av) > 0 THEN ParseInt(av[1])
    ELSE [ok |-> TRUE, val |-> DefaultNumQuestions]

TypeOK ==
    /\ questions \in Seq([options : Seq(STRING), correct : Nat])
    /\ score \in Nat
    /\ total_questions \in Nat
    /\ argv \in ArgvChoices
    /\ num_questions \in Int
    /\ i \in Nat
    /\ correct_idx \in Nat
    /\ answer_idx \in Int
    /\ raised \in {"none", "ValueError", "KeyboardInterrupt"}
    /\ pc \in {"main", "run_quiz", "input", "show_results", "exited"}
    /\ exit_code \in {0, 1}

Init ==
    /\ questions = Bank
    /\ score = 0
    /\ total_questions = 0
    /\ argv = <<>>
    /\ num_questions = DefaultNumQuestions
    /\ selected_questions = <<>>
    /\ i = 0
    /\ options = <<>>
    /\ correct_idx = 0
    /\ answer = <<>>
    /\ answer_idx = 0
    /\ raised = "none"
    /\ presented = <<>>
    /\ report = NoReport
    /\ out = {}
    /\ pc = "main"
    /\ exit_code = 0

\* the body of the for loop for the n-th selected question, up to input()
Present(n, sel, tags) ==
    \E shuffled \in Shuffle(Enumerate(questions[sel[n]].options)) :
        /\ i' = n
        /\ options' = shuffled
        /\ correct_idx' = CorrectIdx(shuffled, questions[sel[n]])
        /\ presented' = Append(presented,
                               [q |-> sel[n],
                                shown |-> [k \in 1..Len(shuffled) |-> shuffled[k][2]]])
        /\ out' = out \cup tags \cup {"question", "prompt"}
        /\ pc' = "input"
        /\ UNCHANGED <<report, exit_code>>

\* the end of the for loop: show_results(), run_quiz and main return
Finish(s, t, tags) ==
    /\ report' = show_results(s, t)
    /\ out' = out \cup tags \cup {"results"}
    /\ pc' = "exited"
    /\ exit_code' = 0
    /\ UNCHANGED <<i, options, correct_idx, presented>>

\* main up to the call of run_quiz
Main ==
    /\ pc = "main"
    /\ \E av \in ArgvChoices :
        /\ argv' = av
        /\ IF NumQuestionsArg(av).ok
           THEN /\ num_questions' = NumQuestionsArg(av).val
                /\ pc' = "run_quiz"
                /\ UNCHANGED <<raised, out, exit_code>>
           ELSE /\ raised' = "ValueError"
                /\ out' = out \cup {"usage"}
                /\ pc' = "exited"
                /\ exit_code' = 1
                /\ UNCHANGED num_questions
    /\ UNCHANGED <<questions, score, total_questions, selected_questions, i,
                   options, correct_idx, answer, answer_idx, presented, report>>

\* run_quiz from its start to the first input(), or to its end
StartQuiz ==
    /\ pc = "run_quiz"
    /\ LET k == SampleSize(num_questions, Len(questions))
       IN  IF Sample(questions, k) = {}
           THEN \* random.sample raises ValueError, nothing catches it
                /\ raised' = "ValueError"
                /\ out' = out \cup {"banner", "traceback"}
                /\ pc' = "exited"
                /\ exit_code' = 1
                /\ UNCHANGED <<selected_questions, i, options, correct_idx,
                               presented, report>>
           ELSE \E sel \in Sample(questions, k) :
                /\ selected_questions' = sel
                /\ raised' = raised
                /\ IF Len(sel) = 0
                   THEN Finish(score, total_questions, {"banner"})
                   ELSE Present(1, sel, {"banner"})
    /\ UNCHANGED <<questions, score, total_questions, argv, num_questions,
                   answer, answer_idx>>

\* input() returns a line: the rest of the loop body, and the loop up to
\* the next input() or the end of run_quiz
Answer ==
    /\ pc = "input"
    /\ \E line \in Lines :
        /\ answer' = Strip(line)
        /\ IF ~ParseInt(Strip(line)).ok
           THEN \* except (ValueError, KeyboardInterrupt): return
                /\ raised' = "ValueError"
                /\ out' = out \cup {"interrupted"}
                /\ pc' = "exited"
                /\ exit_code' = 0
                /\ UNCHANGED <<score, total_questions, answer_idx, i, options,
                               correct_idx, presented, report>>
           ELSE /\ answer_idx' = ParseInt(Strip(line)).val - 1
                /\ raised' = raised
                /\ IF InRange(ParseInt(Strip(line)).val - 1, options)
                   THEN /\ total_questions' = total_questions + 1
                        /\ score' = ScoreAfter(score, ParseInt(Strip(line)).val - 1,
                                               correct_idx)
                        /\ LET tags == {IF ParseInt(Strip(line)).val - 1 = correct_idx
                                        THEN "correct" ELSE "incorrect",
                                        "explanation"}
                           IN  IF i < Len(selected_questions)
                               THEN Present(i + 1, selected_questions, tags)
                               ELSE Finish(score', total_questions', tags)
                   ELSE /\ out' = out \cup {"range", "prompt"}
                        /\ UNCHANGED <<score, total_questions, i, options,
                                       correct_idx, presented, report, pc,
                                       exit_code>>
    /\ UNCHANGED <<questions, argv, num_questions, selected_questions>>

\* KeyboardInterrupt leaving the loop for show_results
Interrupt_ShowsResults ==
    /\ pc = "input"
    /\ raised' = "KeyboardInterrupt"
    /\ report' = show_results(score, total_questions)
    /\ out' = out \cup {"interrupted", "results"}
    /\ pc' = "exited"
    /\ exit_code' = 0
    /\ UNCHANGED <<questions, score, total_questions, argv, num_questions,
                   selected_questions, i, options, correct_idx, answer,
                   answer_idx, presented>>

\* KeyboardInterrupt while input() waits
Interrupt ==
    /\ pc = "input"
    /\ raised' = "KeyboardInterrupt"
    /\ out' = out \cup {"interrupted"}
    /\ pc' = "exited"
    /\ exit_code' = 0
    /\ UNCHANGED <<questions, score, total_questions, argv, num_questions,
                   selected_questions, i, options, correct_idx, answer,
                   answer_idx, presented, report>>

Next == Main \/ StartQuiz \/ Answer \/ Interrupt

Spec == Init /\ [][Next]_vars

(***************************************************************************)
(* show_results on its own, for every score and total up to MaxTotal.      *)
(***************************************************************************)
InitResults ==
    /\ questions = Bank
    /\ score \in 0..MaxTotal
    /\ total_questions \in 0..MaxTotal
    /\ score <= total_questions
    /\ argv = <<>>
    /\ num_questions = DefaultNumQuestions
    /\ selected_questions = <<>>
    /\ i = 0
    /\ options = <<>>
    /\ correct_idx = 0
    /\ answer = <<>>
    /\ answer_idx = 0
    /\ raised = "none"
    /\ presented = <<>>
    /\ report = NoReport
    /\ out = {}
    /\ pc = "show_results"
    /\ exit_code = 0

ShowResults ==
    /\ pc = "show_results"
    /\ report' = show_results(score, total_questions)
    /\ out' = out \cup {"results"}
    /\ pc' = "exited"
    /\ UNCHANGED <<questions, score, total_questions, argv, num_questions,
                   selected_questions, i, options, correct_idx, answer,
                   answer_idx, raised, presented, exit_code>>

NextResults == ShowResults

SpecResults == InitResults /\ [][NextResults]_vars

(***************************************************************************)
(* Properties.                                                             *)
(***************************************************************************)
Injective(f) == \A a, b \in DOMAIN f : a # b => f[a] # f[b]

\* the bank indices of the questions displayed, in order
PresentedQuestions == [k \in 1..Len(presented) |-> presented[k].q]

\* how often text x occurs in sequence f
Count(f, x) == Cardinality({k \in DOMAIN f : f[k] = x})

C2_NonNumericReprompts ==
    [][ (pc = "input" /\ raised' = "ValueError") =>
            /\ pc' = "input"
            /\ i' = i
            /\ options' = options
            /\ score' = score
            /\ total_questions' = total_questions
      ]_vars

\* C3: for a count n >= 0 the selection is a duplicate-free sequence of
\* min(n, bank size) bank entries; a run that ends with all questions
\* answered has presented exactly those; for n > bank size every bank entry
\* is presented exactly once.
C3_SelectionSize ==
    (num_questions >= 0 /\ (pc = "input" \/ report # NoReport)) =>
        /\ Len(selected_questions) = Min(num_questions, Len(questions))
        /\ Injective(selected_questions)
        /\ \A k \in 1..Len(selected_questions) :
               selected_questions[k] \in 1..Len(questions)
        /\ report # NoReport =>
            /\ Len(presented) = Min(num_questions, Len(questions))
            /\ PresentedQuestions = selected_questions
            /\ num_questions > Len(questions) =>
                 \A b \in 1..Len(questions) : Count(PresentedQuestions, b) = 1

C3_Witness ==
    /\ report # NoReport
    /\ num_questions > Len(questions)
    /\ Len(presented) = Len(questions)
    /\ "range" \notin out

\* C4: with a count n >= 0, in every state 0 <= score <= total_questions
\* <= n, and a reported percentage lies in [0, 100].
C4_ScoreBounds ==
    (pc # "main" /\ num_questions >= 0) =>
        /\ 0 <= score
        /\ score <= total_questions
        /\ total_questions <= num_questions
        /\ report # NoReport =>
            /\ FloatGE(report.percentage, FloatOfInt(0))
            /\ FloatGE(FloatOfInt(100), report.percentage)

C4_Witness ==
    /\ pc = "exited"
    /\ num_questions = 2
    /\ total_questions = 2
    /\ score = 1
    /\ "range" \in out
    /\ report # NoReport

\* C5: show_results reports exactly one of four tiers, by inclusive lower
\* bounds on score / total * 100 (0 when total = 0): top iff the percentage
\* is at least 90, second iff in [75, 90), third iff in [60, 75), lowest
\* otherwise; an all-correct run is 100% and the top tier.
C5_Tiers ==
    report # NoReport =>
        LET s == report.score
            t == report.total
            atLeast(b) == t > 0 /\ 100 * s >= b * t
        IN  /\ s = score /\ t = total_questions
            /\ report.tier \in {"outstanding", "great_job", "good_work", "keep_studying"}
            /\ report.tier = "outstanding" <=> atLeast(90)
            /\ report.tier = "great_job" <=> (atLeast(75) /\ ~atLeast(90))
            /\ report.tier = "good_work" <=> (atLeast(60) /\ ~atLeast(75))
            /\ report.tier = "keep_studying" <=> ~atLeast(60)
            /\ (s = t /\ t > 0) =>
                 /\ report.percentage = FloatOfInt(100)
                 /\ report.tier = "outstanding"

C5_Witness ==
    /\ report # NoReport
    /\ report.total = 20
    /\ report.score = 15
    /\ report.tier = "great_job"

\* C6: with a count of 0 nothing is selected, no question is presented and
\* no answer prompt is issued; the run ends in the report 0 of 0, 0 percent,
\* lowest tier.
C6_ZeroQuestions ==
    (num_questions = 0 /\ pc \notin {"main", "run_quiz"}) =>
        /\ pc = "exited"
        /\ exit_code = 0
        /\ raised = "none"
        /\ selected_questions = <<>>
        /\ presented = <<>>
        /\ "prompt" \notin out
        /\ "results" \in out
        /\ report = [score |-> 0, total |-> 0, percentage |-> FloatZero,
                     tier |-> "keep_studying"]

C6_Witness ==
    /\ num_questions = 0
    /\ pc = "exited"
    /\ report.total = 0

\* C7: the displayed options of a presented question are a permutation of
\* its original options, exactly one displayed position is the recorded
\* correct one and it shows the original correct option's text; the bank is
\* unchanged.
C7_ShuffleKeepsAnswer ==
    /\ questions = Bank
    /\ pc = "input" =>
        LET q == questions[selected_questions[i]]
            shown == presented[Len(presented)].shown
        IN  /\ presented[Len(presented)].q = selected_questions[i]
            /\ shown = [k \in 1..Len(options) |-> options[k][2]]
            /\ Len(shown) = Len(q.options)
            /\ \A k \in 1..Len(q.options) :
                   Count(shown, q.options[k]) = Count(q.options, q.options[k])
            /\ correct_idx \in 0..(Len(shown) - 1)
            /\ shown[correct_idx + 1] = q.options[q.correct + 1]
            /\ Cardinality({k \in 1..Len(options) : options[k][1] = q.correct}) = 1
            /\ options[correct_idx + 1][1] = q.correct

C7_Witness ==
    /\ pc = "input"
    /\ i = 2
    /\ correct_idx # questions[selected_questions[i]].correct
    /\ presented[i].shown # questions[selected_questions[i]].options

\* C8: a count argument that is not an integer makes main print the usage
\* message and exit with a non-zero status before the quiz starts; without
\* an argument the count is 10.
C8_BadArgumentUsage ==
    /\ (pc # "main" /\ argv \in {<<<<"a", "b", "c">>>>, <<<<"2", ".", "5">>>>, <<<<>>>>}) =>
        /\ pc = "exited"
        /\ exit_code # 0
        /\ "usage" \in out
        /\ out = {"usage"}
        /\ presented = <<>>
        /\ selected_questions = <<>>
        /\ report = NoReport
        /\ score = 0 /\ total_questions = 0
    /\ "usage" \in out => (argv # <<>> /\ ~ParseInt(argv[1]).ok)
    /\ (pc # "main" /\ argv = <<>>) => num_questions = 10

C8_Witness ==
    /\ argv = <<<<"a", "b", "c">>>>
    /\ pc = "exited"
    /\ "usage" \in out

\* C9: score and total_questions change only when a number within
\* [1, len(options)] is answered: total_questions goes up by one and score
\* by one iff the answered position is the correct one; a number outside
\* the range changes neither, nor the question or its order, and the
\* prompt is repeated.
C9_OnlyValidAnswersCount ==
    [][ /\ (score' # score \/ total_questions' # total_questions) =>
            /\ pc = "input"
            /\ ParseInt(answer').ok
            /\ ParseInt(answer').val \in 1..Len(options)
            /\ answer_idx' = ParseInt(answer').val - 1
            /\ total_questions' = total_questions + 1
            /\ score' = IF answer_idx' = correct_idx THEN score + 1 ELSE score
        /\ (pc = "input" /\ raised' = "none" /\ ParseInt(answer').val \notin 1..Len(options)) =>
            /\ ParseInt(answer').ok
            /\ score' = score
            /\ total_questions' = total_questions
            /\ i' = i
            /\ options' = options
            /\ correct_idx' = correct_idx
            /\ presented' = presented
            /\ pc' = "input"
            /\ "range" \in out'
      ]_vars

C9_Witness ==
    /\ pc = "input"
    /\ "range" \in out
    /\ answer = <<"0">>
    /\ total_questions = 1
    /\ score = 0

\* C10: a negative count parses, so no usage message is printed; run_quiz
\* then fails in the selection with an unhandled error before any question
\* is presented: score and total_questions stay 0 and there is no report.
C10_NegativeCountFails ==
    (num_questions < 0 /\ pc # "main") =>
        /\ "usage" \notin out
        /\ pc \in {"run_quiz", "exited"}
        /\ pc = "exited" =>
            /\ raised = "ValueError"
            /\ "traceback" \in out
            /\ exit_code # 0
        /\ presented = <<>>
        /\ "prompt" \notin out
        /\ score = 0
        /\ total_questions = 0
        /\ report = NoReport
        /\ "results" \notin out

C10_Witness ==
    /\ num_questions < 0
    /\ pc = "exited"
    /\ "traceback" \in out

====
